---- MODULE Spec2Model ----
(***************************************************************************)
(* PIP_interaction.py: the protein-protein interaction pipeline.           *)
(* A table of interactions is loaded, filtered by an adaptive score        *)
(* threshold, turned into an undirected networkx Graph, measured (degree,  *)
(* betweenness, clustering), ranked, and written to a workbook and to      *)
(* three HTML plots.  The script is straight-line code: pc is the section  *)
(* of the script about to run.                                             *)
(*                                                                         *)
(* Labels are strings.  Scores are integers.  The floating point metrics   *)
(* are modelled as exact fractions <<numerator, denominator>>.             *)
(***************************************************************************)
EXTENDS Integers, Sequences, FiniteSets, TLC

\* ---------------------------------------------------------------- bounds
\* Longest table of the exhaustive family of inputs.
MaxRows == 2
\* Most nodes of a table of the tree/cycle family of inputs.
MaxNodes == 11

\* ------------------------------------------------------ program constants
thresholds == <<700, 400, 0>>
Top5N == 5
Top10N == 10
EmptyMessage == "No interactions found after filtering"
NoScoreColumn == "None"
ScoreColumn == "combined_score"

\* --------------------------------------------------------------- helpers
Range(s) == {s[i] : i \in DOMAIN s}
InSeq(x, s) == \E i \in DOMAIN s : s[i] = x
Count(x, s) == Cardinality({i \in DOMAIN s : s[i] = x})
Min(a, b) == IF a <= b THEN a ELSE b
Head_n(s, n) == SubSeq(s, 1, Min(n, Len(s)))

\* ------------------------------------------------------------ the inputs
\* A row is <<A, B>> (no score column) or <<A, B, score>>.
SmallLabels == {"X", "Y", "Z"}
Scores == {0, 400, 700, 800}
LabelNames == <<"X", "Y", "Z", "P4", "P5", "P6", "P7", "P8", "P9", "P10",
                "P11", "P12", "P13", "P14">>

SeqsUpTo(S, n) == UNION {[1..k -> S] : k \in 0..n}

\* every table of at most MaxRows rows over three labels, with a score column
ScoredTables == SeqsUpTo(SmallLabels \X SmallLabels \X Scores, MaxRows)
\* and without one
PlainTables == SeqsUpTo(SmallLabels \X SmallLabels, MaxRows)

\* the scenarios of the documentation
ScenarioA == << <<"X", "Y", 800>>, <<"Y", "Z", 500>>, <<"X", "Z", 100>> >>
ScenarioB == << <<"X", "Y", 0>>, <<"Y", "Z", -5>> >>
ScenarioC == << <<"X", "Y", 900>>, <<"Y", "Z", 900>>, <<"Z", "X", 900>> >>
ScenarioTables == {ScenarioA, ScenarioB, ScenarioC}

\* a pair repeated in both orientations, and a graph of two components
RepeatedPair == << <<"X", "Y", 800>>, <<"Y", "X", 900>>, <<"X", "Y", 750>> >>
TwoComponents == << <<"X", "Y">>, <<"Z", "P4">>, <<"P4", "P5">>, <<"P6", "P6">> >>

\* Larger graphs: node i+1 (i >= 1) is attached to node 1 or to node i, and
\* the last node may be joined back to node 1 (which closes a cycle).
TreeRows(n, toFirst) ==
    [i \in 1..(n - 1) |->
        <<LabelNames[IF toFirst[i] THEN 1 ELSE i], LabelNames[i + 1]>>]
TreeTables(n) == {TreeRows(n, c) : c \in [1..(n - 1) -> BOOLEAN]}
LargeTables ==
    UNION {TreeTables(n) \cup {Append(tbl, <<LabelNames[n], LabelNames[1]>>) : tbl \in TreeTables(n)}
           : n \in 4..MaxNodes}

\* ------------------------------------------------------------- the state
VARIABLES
    pc,                \* the section of the script about to run
    loaded,            \* the table as read from the file (lines 14-20)
    score_col,         \* name of the score column, or NoScoreColumn
    df,                \* the data frame, reassigned by the filter
    t,                 \* the loop variable of the filter: <<>> unbound, else <<value>>
    G,                 \* the graph: [nodes, adj, attr]
    degree_dict, betweenness_dict, clustering_dict,
    summary_df, top5, top10,
    interacting_nodes, interaction_df,
    workbook,          \* network_summary.xlsx: a sequence of sheets
    html               \* the HTML files written

vars == <<pc, loaded, score_col, df, t, G, degree_dict, betweenness_dict,
          clustering_dict, summary_df, top5, top10, interacting_nodes,
          interaction_df, workbook, html>>

\* nx.Graph(): nodes in insertion order, adj[n] the neighbours of n in
\* insertion order, attr[{u, v}] the score stored on the edge.
EmptyGraph == [nodes |-> <<>>, adj |-> <<>>, attr |-> <<>>]

Init ==
    /\ \/ /\ score_col = ScoreColumn
          /\ loaded \in ScoredTables \cup ScenarioTables \cup {RepeatedPair}
       \/ /\ score_col = NoScoreColumn
          /\ loaded \in PlainTables \cup LargeTables \cup {TwoComponents}
    /\ df = loaded
    /\ pc = "filter"
    /\ t = <<>>
    /\ G = EmptyGraph
    /\ degree_dict = <<>>
    /\ betweenness_dict = <<>>
    /\ clustering_dict = <<>>
    /\ summary_df = <<>>
    /\ top5 = <<>>
    /\ top10 = <<>>
    /\ interacting_nodes = <<>>
    /\ interaction_df = <<>>
    /\ workbook = <<>>
    /\ html = {}

\* ------------------------------------------------- SMART FILTERING (36-49)
\* df[df[score_col] > t]
\* the comparison with the tie let through
ScoreAtLeast(threshold, row) == row[3] >= threshold
ScoreAbove(threshold, row) == row[3] > threshold
Select(frame, threshold) == SelectSeq(frame, LAMBDA row : ScoreAbove(threshold, row))

\* the for/else loop: the first threshold whose subset is not empty replaces
\* df and ends the loop; when the list is exhausted df keeps its value and t
\* keeps the last threshold tried.
RECURSIVE filter_loop(_, _)
filter_loop(frame, i) ==
    LET filtered == Select(frame, thresholds[i])
    IN  IF filtered # <<>>
        THEN [df |-> filtered, t |-> <<thresholds[i]>>]
        ELSE IF i = Len(thresholds)
             THEN [df |-> frame, t |-> <<thresholds[i]>>]
             ELSE filter_loop(frame, i + 1)

SmartFilter ==
    /\ pc = "filter"
    /\ IF score_col # NoScoreColumn
       THEN LET r == filter_loop(df, 1) IN df' = r.df /\ t' = r.t
       ELSE UNCHANGED <<df, t>>
    /\ pc' = "handle_empty"
    /\ UNCHANGED <<loaded, score_col, G, degree_dict, betweenness_dict,
                   clustering_dict, summary_df, top5, top10, interacting_nodes,
                   interaction_df, workbook, html>>

\* ------------------------------------------- HANDLE EMPTY DATAFRAME (51-58)
\* DataFrame([[message]], columns=["Message"]).to_excel(path, index=False)
MessageSheet ==
    [name |-> "Sheet1", columns |-> <<"Message">>,
     rows |-> <<[Message |-> EmptyMessage]>>, styled |-> FALSE]

\* the empty branch without its exit(0)
HandleEmptyNoExit ==
    /\ pc = "handle_empty"
    /\ IF df = <<>>
       THEN workbook' = <<MessageSheet>>
       ELSE UNCHANGED workbook
    /\ pc' = "build"
    /\ UNCHANGED <<loaded, score_col, df, t, G, degree_dict, betweenness_dict,
                   clustering_dict, summary_df, top5, top10, interacting_nodes,
                   interaction_df, html>>

HandleEmpty ==
    /\ pc = "handle_empty"
    /\ IF df = <<>>
       THEN /\ workbook' = <<MessageSheet>>
            /\ pc' = "done"
       ELSE /\ pc' = "build"
            /\ UNCHANGED workbook
    /\ UNCHANGED <<loaded, score_col, df, t, G, degree_dict, betweenness_dict,
                   clustering_dict, summary_df, top5, top10, interacting_nodes,
                   interaction_df, html>>

\* --------------------------------------------------- BUILD NETWORK (60-66)
\* Graph.add_node: a new node gets an empty adjacency dict.
add_node(g, n) ==
    IF n \in DOMAIN g.adj
    THEN g
    ELSE [g EXCEPT !.nodes = Append(@, n), !.adj = @ @@ (n :> <<>>)]

\* a neighbour list that keeps parallel edges
add_nbr_parallel(g, u, v) == [g EXCEPT !.adj[u] = Append(@, v)]

\* adj[u][v] = data: a dict assignment, v is a key of adj[u] at most once.
add_nbr(g, u, v) ==
    IF InSeq(v, g.adj[u]) THEN g ELSE [g EXCEPT !.adj[u] = Append(@, v)]

\* an edge stored in one direction only
add_edge_directed(g, row) ==
    LET u == row[1]
        v == row[2]
        g1 == add_nbr(add_node(add_node(g, u), v), u, v)
    IN  IF Len(row) >= 3
        THEN [g1 EXCEPT !.attr = ({u, v} :> row[3]) @@ @]
        ELSE g1

\* Graph.add_edge(u, v, **attr): both directions; a repeated pair updates
\* the stored attribute, a pair (u, u) makes u its own neighbour.
add_edge(g, row) ==
    LET u == row[1]
        v == row[2]
        g1 == add_nbr(add_nbr(add_node(add_node(g, u), v), u, v), v, u)
    IN  IF Len(row) >= 3
        THEN [g1 EXCEPT !.attr = ({u, v} :> row[3]) @@ @]
        ELSE g1

\* for each row of the frame, in order: loop = [g, i], i the next row
RECURSIVE add_edges_from(_, _)
add_edges_from(loop, frame) ==
    IF loop.i > Len(frame)
    THEN loop.g
    ELSE add_edges_from([g |-> add_edge(loop.g, frame[loop.i]), i |-> loop.i + 1], frame)

from_pandas_edgelist(frame) == add_edges_from([g |-> EmptyGraph, i |-> 1], frame)

BuildNetwork ==
    /\ pc = "build"
    /\ G' = from_pandas_edgelist(df)
    /\ pc' = "metrics"
    /\ UNCHANGED <<loaded, score_col, df, t, degree_dict, betweenness_dict,
                   clustering_dict, summary_df, top5, top10, interacting_nodes,
                   interaction_df, workbook, html>>

\* ----------------------------------------- COMPUTE NETWORK METRICS (68-71)
\* exact fractions <<numerator, denominator>> in lowest terms, denominator > 0
RECURSIVE Gcd(_, _)
Gcd(a, b) == IF b = 0 THEN a ELSE Gcd(b, a % b)
Frac(n, d) == IF n = 0 THEN <<0, 1>> ELSE <<n \div Gcd(n, d), d \div Gcd(n, d)>>
FAdd(x, y) == Frac(x[1] * y[2] + y[1] * x[2], x[2] * y[2])
FMul(x, y) == Frac(x[1] * y[1], x[2] * y[2])
FLeq(x, y) == x[1] * y[2] <= y[1] * x[2]
Zero == <<0, 1>>
One == <<1, 1>>

\* G.degree(): DegreeView counts a self-loop twice: len(nbrs) + (n in nbrs)
degree(g, n) == Len(g.adj[n]) + (IF InSeq(n, g.adj[n]) THEN 1 ELSE 0)

\* _single_source_shortest_path_basic: the breadth-first search of Brandes'
\* algorithm.  st = [S, P, sigma, D, Q].
RECURSIVE visit_neighbors(_, _, _)
visit_neighbors(g, loop, v) ==
    IF loop.i > Len(g.adj[v])
    THEN loop.st
    ELSE LET w == g.adj[v][loop.i]
             st == loop.st
             st1 == IF w \in DOMAIN st.D
                    THEN st
                    ELSE [st EXCEPT !.Q = Append(@, w), !.D = @ @@ (w :> st.D[v] + 1)]
             st2 == IF st1.D[w] = st1.D[v] + 1
                    THEN [st1 EXCEPT !.sigma[w] = @ + st1.sigma[v], !.P[w] = Append(@, v)]
                    ELSE st1
         IN  visit_neighbors(g, [st |-> st2, i |-> loop.i + 1], v)

RECURSIVE bfs_loop(_, _)
bfs_loop(g, st) ==
    IF st.Q = <<>>
    THEN st
    ELSE LET v == Head(st.Q)
             st1 == [st EXCEPT !.Q = Tail(@), !.S = Append(@, v)]
         IN  bfs_loop(g, visit_neighbors(g, [st |-> st1, i |-> 1], v))

single_source_shortest_path_basic(g, s) ==
    bfs_loop(g, [S |-> <<>>,
                 P |-> [v \in DOMAIN g.adj |-> <<>>],
                 sigma |-> [v \in DOMAIN g.adj |-> IF v = s THEN 1 ELSE 0],
                 D |-> (s :> 0),
                 Q |-> <<s>>])

\* _accumulate_basic: pop w off S, push the dependency of w back to its
\* predecessors, add delta[w] to betweenness[w] unless w is the source.
\* for v in P[w]: delta[v] += sigma[v] * coeff.  loop = [delta, i]
RECURSIVE push_back(_, _, _, _)
push_back(loop, preds, sigma, coeff) ==
    IF loop.i > Len(preds)
    THEN loop.delta
    ELSE push_back([delta |-> [loop.delta EXCEPT ![preds[loop.i]] =
                                  FAdd(@, FMul(<<sigma[preds[loop.i]], 1>>, coeff))],
                    i |-> loop.i + 1],
                   preds, sigma, coeff)

\* acc = [betweenness, delta, S]
RECURSIVE accumulate_basic(_, _, _)
accumulate_basic(acc, st, s) ==
    IF acc.S = <<>>
    THEN acc.betweenness
    ELSE LET w == acc.S[Len(acc.S)]
             coeff == FMul(FAdd(One, acc.delta[w]), <<1, st.sigma[w]>>)
             delta1 == push_back([delta |-> acc.delta, i |-> 1], st.P[w], st.sigma, coeff)
         IN  accumulate_basic(
                 [betweenness |-> IF w # s
                                  THEN [acc.betweenness EXCEPT ![w] = FAdd(@, delta1[w])]
                                  ELSE acc.betweenness,
                  delta |-> delta1,
                  S |-> SubSeq(acc.S, 1, Len(acc.S) - 1)],
                 st, s)

\* for s in G: the sources in node order, the first i of them done
RECURSIVE betweenness_sources(_, _)
betweenness_sources(g, i) ==
    IF i = 0
    THEN [v \in DOMAIN g.adj |-> Zero]
    ELSE LET s == g.nodes[i]
             st == single_source_shortest_path_basic(g, s)
         IN  accumulate_basic([betweenness |-> betweenness_sources(g, i - 1),
                               delta |-> [v \in DOMAIN g.adj |-> Zero],
                               S |-> st.S],
                              st, s)

\* the accumulated values left unscaled
rescale_none(betweenness, n) == betweenness

\* _rescale with normalized=True on an undirected graph: no scaling when
\* n <= 2, else every value times 1 / ((n - 1)(n - 2)).
rescale(betweenness, n) ==
    IF n <= 2
    THEN betweenness
    ELSE [v \in DOMAIN betweenness |-> FMul(betweenness[v], <<1, (n - 1) * (n - 2)>>)]

betweenness_centrality(g) ==
    rescale(betweenness_sources(g, Len(g.nodes)), Len(g.nodes))

\* nx.clustering, unweighted and undirected (_triangles_and_degree_iter):
\* vs = set(nbrs) - {v}; twice the triangles at v = sum over w in vs of
\* |vs & (set(G[w]) - {w})|; 0 when there is none, else t / (d (d - 1)).
RECURSIVE SumOver(_, _)
SumOver(f, S) ==
    IF S = {} THEN 0 ELSE LET x == CHOOSE y \in S : TRUE IN f[x] + SumOver(f, S \ {x})

clustering_of(g, v) ==
    LET vs == Range(g.adj[v]) \ {v}
        shared == [w \in vs |-> Cardinality(vs \cap (Range(g.adj[w]) \ {w}))]
        tri == SumOver(shared, vs)
        d == Cardinality(vs)
    IN  IF tri = 0 THEN Zero ELSE Frac(tri, d * (d - 1))

clustering(g) == [v \in DOMAIN g.adj |-> clustering_of(g, v)]

ComputeMetrics ==
    /\ pc = "metrics"
    /\ degree_dict' = [n \in DOMAIN G.adj |-> degree(G, n)]
    /\ betweenness_dict' = betweenness_centrality(G)
    /\ clustering_dict' = clustering(G)
    /\ pc' = "summary"
    /\ UNCHANGED <<loaded, score_col, df, t, G, summary_df, top5, top10,
                   interacting_nodes, interaction_df, workbook, html>>

\* ------------------------------------------- BUILD SUMMARY DATAFRAME (73-80)
summary_row(g, n) ==
    [Protein |-> n,
     Degree |-> degree_dict[n],
     Betweenness |-> betweenness_dict[n],
     Clustering |-> clustering_dict[n],
     Number_of_Interactions |-> Len(g.adj[n])]

BuildSummary ==
    /\ pc = "summary"
    /\ summary_df' = [i \in 1..Len(G.nodes) |-> summary_row(G, G.nodes[i])]
    /\ pc' = "sort"
    /\ UNCHANGED <<loaded, score_col, df, t, G, degree_dict, betweenness_dict,
                   clustering_dict, top5, top10, interacting_nodes,
                   interaction_df, workbook, html>>

\* ----------------------------------------- SORT BY DEGREE & INTERACTION (82-83)
\* the ascending comparison
RECURSIVE key_less(_, _, _, _)
key_less(a, b, by, k) ==
    IF k > Len(by)
    THEN FALSE
    ELSE IF a[by[k]] # b[by[k]]
         THEN a[by[k]] < b[by[k]]
         ELSE key_less(a, b, by, k + 1)

\* row a goes strictly before row b in a descending sort on the columns `by`
RECURSIVE key_greater(_, _, _, _)
key_greater(a, b, by, k) ==
    IF k > Len(by)
    THEN FALSE
    ELSE IF a[by[k]] # b[by[k]]
         THEN a[by[k]] > b[by[k]]
         ELSE key_greater(a, b, by, k + 1)

\* the index at which row r enters the sorted prefix: before the first row
\* it strictly precedes, so rows with equal keys keep their order
RECURSIVE insert_at(_, _, _, _)
insert_at(sorted, r, by, k) ==
    IF k > Len(sorted) \/ key_greater(r, sorted[k], by, 1)
    THEN k
    ELSE insert_at(sorted, r, by, k + 1)

insert_row(sorted, r, by) ==
    LET k == insert_at(sorted, r, by, 1)
    IN  SubSeq(sorted, 1, k - 1) \o <<r>> \o SubSeq(sorted, k, Len(sorted))

\* DataFrame.sort_values(by=..., ascending=False): a stable descending sort
\* (lexsort for several keys; for one key numpy's quicksort is an insertion
\* sort below 17 rows, and pandas reverses before and after sorting)
RECURSIVE sort_loop(_, _, _)
sort_loop(loop, frame, by) ==
    IF loop.i > Len(frame)
    THEN loop.sorted
    ELSE sort_loop([sorted |-> insert_row(loop.sorted, frame[loop.i], by), i |-> loop.i + 1],
                   frame, by)

sort_values(frame, by) == sort_loop([sorted |-> <<>>, i |-> 1], frame, by)

SortSummary ==
    /\ pc = "sort"
    /\ summary_df' = sort_values(summary_df, <<"Degree", "Number_of_Interactions">>)
    /\ pc' = "hubs"
    /\ UNCHANGED <<loaded, score_col, df, t, G, degree_dict, betweenness_dict,
                   clustering_dict, top5, top10, interacting_nodes,
                   interaction_df, workbook, html>>

\* ------------------------------------------------- CREATE HUB SHEETS (85-87)
\* keep='all': every row tied with the n-th is kept as well
nlargest_keep_all(frame, n, column) ==
    LET sorted == sort_values(frame, <<column>>)
    IN  IF Len(sorted) <= n
        THEN sorted
        ELSE SelectSeq(sorted, LAMBDA r : r[column] >= sorted[n][column])

\* DataFrame.nlargest(n, column), keep='first': the n rows of largest value,
\* in descending order, equal values in order of appearance
nlargest(frame, n, column) == Head_n(sort_values(frame, <<column>>), n)

CreateHubSheets ==
    /\ pc = "hubs"
    /\ top5' = nlargest(summary_df, Top5N, "Degree")
    /\ top10' = nlargest(summary_df, Top10N, "Degree")
    /\ pc' = "interactions"
    /\ UNCHANGED <<loaded, score_col, df, t, G, degree_dict, betweenness_dict,
                   clustering_dict, summary_df, interacting_nodes,
                   interaction_df, workbook, html>>

\* ----------------------------------------- PROTEIN INTERACTIONS LIST (89-95)
\* ", ".join(v)
RECURSIVE join(_, _)
join(sep, v) ==
    IF v = <<>> THEN ""
    ELSE IF Len(v) = 1 THEN v[1]
    ELSE v[1] \o sep \o join(sep, Tail(v))

interaction_row(g, n) ==
    [Protein |-> n,
     Number_of_Interactions |-> Len(g.adj[n]),
     Interacting_Proteins |-> join(", ", g.adj[n])]

InteractionList ==
    /\ pc = "interactions"
    /\ interacting_nodes' = [n \in DOMAIN G.adj |-> G.adj[n]]
    /\ interaction_df' = sort_values([i \in 1..Len(G.nodes) |-> interaction_row(G, G.nodes[i])],
                                     <<"Number_of_Interactions">>)
    /\ pc' = "save"
    /\ UNCHANGED <<loaded, score_col, df, t, G, degree_dict, betweenness_dict,
                   clustering_dict, summary_df, top5, top10, workbook, html>>

\* ------------------------------------------ SAVE ALL SHEETS TO EXCEL (97-105)
MetricColumns == <<"Protein", "Degree", "Betweenness", "Clustering", "Number_of_Interactions">>
Sheet(name, columns, rows) == [name |-> name, columns |-> columns, rows |-> rows, styled |-> FALSE]

SaveSheets ==
    /\ pc = "save"
    /\ workbook' = << Sheet("Summary", MetricColumns, summary_df),
                      Sheet("Top5_Hubs", MetricColumns, top5),
                      Sheet("Top10_Hubs", MetricColumns, top10),
                      Sheet("Protein_Interaction",
                            <<"Protein", "Number_of_Interactions", "Interacting_Proteins">>,
                            interaction_df) >>
    /\ pc' = "format"
    /\ UNCHANGED <<loaded, score_col, df, t, G, degree_dict, betweenness_dict,
                   clustering_dict, summary_df, top5, top10, interacting_nodes,
                   interaction_df, html>>

\* ---------------------------------------------- FORMAT EXCEL OUTPUT (107-143)
\* widths, fills, fonts, borders: the cells keep their values
FormatExcel ==
    /\ pc = "format"
    /\ workbook' = [i \in 1..Len(workbook) |-> [workbook[i] EXCEPT !.styled = TRUE]]
    /\ pc' = "visualize"
    /\ UNCHANGED <<loaded, score_col, df, t, G, degree_dict, betweenness_dict,
                   clustering_dict, summary_df, top5, top10, interacting_nodes,
                   interaction_df, html>>

\* -------------------------------------------------- VISUALIZATION (145-220)
Visualize ==
    /\ pc = "visualize"
    /\ html' = {"protein_network_betweenness.html",
                "protein_network_clustering.html",
                "interaction_line_plot.html"}
    /\ pc' = "done"
    /\ UNCHANGED <<loaded, score_col, df, t, G, degree_dict, betweenness_dict,
                   clustering_dict, summary_df, top5, top10, interacting_nodes,
                   interaction_df, workbook>>

Next ==
    \/ SmartFilter
    \/ HandleEmpty
    \/ BuildNetwork
    \/ ComputeMetrics
    \/ BuildSummary
    \/ SortSummary
    \/ CreateHubSheets
    \/ InteractionList
    \/ SaveSheets
    \/ FormatExcel
    \/ Visualize

Spec == Init /\ [][Next]_vars
\* ================================================================ properties
PcOrder == <<"filter", "handle_empty", "build", "metrics", "summary", "sort",
             "hubs", "interactions", "save", "format", "visualize", "done">>
PcIndex(p) == CHOOSE i \in DOMAIN PcOrder : PcOrder[i] = p
\* the run took the empty-result exit
EmptyExit == pc = "done" /\ html = {}
\* the section `stage` has run in this run
Ran(stage) == PcIndex(pc) > PcIndex(stage) /\ (EmptyExit => PcIndex(stage) <= PcIndex("handle_empty"))

HasScore(frame, threshold) == \E i \in DOMAIN frame : frame[i][3] > threshold
Pair(row) == {row[1], row[2]}
EdgePairs(frame) == {Pair(frame[i]) : i \in DOMAIN frame}
Nodes == DOMAIN G.adj

\* C1: with a score column, the threshold used is the first of 700, 400, 0
\* that some edge exceeds, and the filtered frame keeps exactly the loaded
\* rows whose score is strictly above it (each as often as it was loaded).
C1_AdaptiveFilter ==
    (Ran("filter") /\ score_col # NoScoreColumn /\ HasScore(loaded, 0))
        => \E i \in DOMAIN thresholds :
              /\ HasScore(loaded, thresholds[i])
              /\ \A j \in 1..(i - 1) : ~HasScore(loaded, thresholds[j])
              /\ t = <<thresholds[i]>>
              /\ \A row \in Range(loaded) \cup Range(df) :
                    Count(row, df) = IF row[3] > thresholds[i] THEN Count(row, loaded) ELSE 0

\* threshold 400 was chosen, a row tied at 400 was dropped and a row tied
\* at 700 was kept
C1_Witness ==
    /\ pc = "done"
    /\ t = <<400>>
    /\ \E i \in DOMAIN loaded : loaded[i][3] = 400
    /\ \E i \in DOMAIN df : df[i][3] = 700
    /\ \A i \in DOMAIN df : df[i][3] # 400

\* C2: with a score column and no edge above 0, the filter's result is the
\* empty edge set and the run ends with the explanatory record, no graph
\* being built.
C2_Exhaustion ==
    (Ran("handle_empty") /\ score_col # NoScoreColumn /\ ~HasScore(loaded, 0))
        => /\ df = <<>>
           /\ pc = "done"
           /\ workbook = <<MessageSheet>>
           /\ G = EmptyGraph

\* C3: once the frame is empty after the filter, the run ends with exactly
\* the explanatory record and no later section runs; the four tables are
\* written only when the filtered frame is not empty.
C3_EmptyTerminal ==
    /\ (Ran("handle_empty") /\ df = <<>>)
          => /\ pc = "done"
             /\ workbook = <<MessageSheet>>
             /\ G = EmptyGraph
             /\ degree_dict = <<>> /\ betweenness_dict = <<>> /\ clustering_dict = <<>>
             /\ summary_df = <<>> /\ top5 = <<>> /\ top10 = <<>>
             /\ interacting_nodes = <<>> /\ interaction_df = <<>>
             /\ html = {}
    /\ (\E i \in DOMAIN workbook : workbook[i].name # "Sheet1") => df # <<>>

C3_Witness ==
    /\ pc = "done"
    /\ df = <<>>
    /\ workbook = <<MessageSheet>>

\* C4: the built graph has no self-loop: no node is in its own neighbour list.
C4_NoSelfLoops ==
    Ran("build") => \A n \in Nodes : ~InSeq(n, G.adj[n])

\* C5: for every node, Number_of_Interactions (the length of its neighbour
\* list) equals its Degree, in the summary and in the interaction table.
C5_NeighborCountIsDegree ==
    /\ Ran("summary")
          => \A i \in DOMAIN summary_df :
                summary_df[i].Number_of_Interactions = summary_df[i].Degree
    /\ Ran("interactions")
          => \A i \in DOMAIN interaction_df :
                interaction_df[i].Number_of_Interactions = degree_dict[interaction_df[i].Protein]

\* C6: an unordered pair of the filtered frame, however often and in
\* whichever orientation it is repeated, is one edge: each endpoint lists the
\* other once, and the degree of a node is one per distinct pair it is an
\* endpoint of (a pair (v, v) has v as both of its endpoints).
C6_DuplicatesCoalesced ==
    Ran("metrics")
        => \A v \in Nodes :
              /\ \A w \in Nodes : Count(w, G.adj[v]) = IF {v, w} \in EdgePairs(df) THEN 1 ELSE 0
              /\ degree_dict[v] = Cardinality({e \in EdgePairs(df) : v \in e /\ e # {v}})
                                  + (IF {v} \in EdgePairs(df) THEN 2 ELSE 0)

\* a pair repeated in the same and in the reversed orientation, degree 1
C6_Witness ==
    /\ pc = "done"
    /\ \E i, j, k \in DOMAIN df :
          /\ i < j /\ j < k
          /\ df[i][1] # df[i][2]
          /\ df[j][1] = df[i][2] /\ df[j][2] = df[i][1]
          /\ df[k][1] = df[i][1] /\ df[k][2] = df[i][2]
          /\ degree_dict[df[i][1]] = 1
          /\ degree_dict[df[i][2]] = 1

\* C7: the top-5 table has min(5, nodes) rows and the top-10 table has
\* min(10, nodes) rows, in the frames and in the sheets written.
C7_TopKLength ==
    /\ Ran("hubs")
          => /\ Len(top5) = Min(Top5N, Cardinality(Nodes))
             /\ Len(top10) = Min(Top10N, Cardinality(Nodes))
    /\ Ran("save")
          => /\ Len(workbook[2].rows) = Min(Top5N, Cardinality(Nodes))
             /\ Len(workbook[3].rows) = Min(Top10N, Cardinality(Nodes))

\* more nodes than 10, tied degrees across the cut
C7_Witness ==
    /\ pc = "done"
    /\ Cardinality(Nodes) > Top10N
    /\ Len(top5) = Top5N
    /\ Len(top10) = Top10N
    /\ summary_df[Top5N].Degree = summary_df[Top5N + 1].Degree
    /\ summary_df[Top10N].Degree = summary_df[Top10N + 1].Degree

\* the ranked table holds every node exactly once, by degree descending
RankedByDegree ==
    Ran("sort")
        => /\ Len(summary_df) = Cardinality(Nodes)
           /\ \A n \in Nodes : \E i \in DOMAIN summary_df : summary_df[i].Protein = n
           /\ \A i \in 1..(Len(summary_df) - 1) : summary_df[i].Degree >= summary_df[i + 1].Degree
           /\ \A i \in DOMAIN summary_df :
                 (\A j \in DOMAIN summary_df : j # i => summary_df[i].Degree > summary_df[j].Degree)
                    => i = 1

\* C8 (as stated): the ranked table holds every node once by degree
\* descending, and in Scenario A Y (degree 2) precedes X and Z (degree 1).
C8_Original ==
    /\ RankedByDegree
    /\ (Ran("sort") /\ loaded = ScenarioA)
          => /\ Len(summary_df) = 3
             /\ summary_df[1].Protein = "Y" /\ summary_df[1].Degree = 2
             /\ summary_df[2].Degree = 1 /\ summary_df[3].Degree = 1

\* C8 (amended): the ranked table holds every node once by degree
\* descending, a node of strictly highest degree first; in Scenario A the
\* filter selects 700, only X-Y is left, and X precedes Y, both of degree 1.
C8_RankedOrder ==
    /\ RankedByDegree
    /\ (Ran("sort") /\ loaded = ScenarioA)
          => /\ t = <<700>>
             /\ Len(summary_df) = 2
             /\ summary_df[1].Protein = "X" /\ summary_df[1].Degree = 1
             /\ summary_df[2].Protein = "Y" /\ summary_df[2].Degree = 1

\* the node of strictly highest degree was not the first one inserted
C8_Witness ==
    /\ pc = "done"
    /\ Len(summary_df) >= 3
    /\ summary_df[1].Degree > summary_df[2].Degree
    /\ summary_df[1].Protein # G.nodes[1]

\* C9: the unordered pairs rebuilt from the neighbour lists are exactly the
\* unordered pairs of the filtered frame, and the lists are symmetric.
C9_RoundTrip ==
    Ran("interactions")
        => /\ UNION {{{v, w} : w \in Range(interacting_nodes[v])} : v \in DOMAIN interacting_nodes}
                 = EdgePairs(df)
           /\ DOMAIN interacting_nodes = UNION EdgePairs(df)
           /\ \A v, w \in DOMAIN interacting_nodes :
                 InSeq(w, interacting_nodes[v]) <=> InSeq(v, interacting_nodes[w])

C9_Witness ==
    /\ pc = "done"
    /\ Cardinality(EdgePairs(df)) >= 3
    /\ \E v \in DOMAIN interacting_nodes : Len(interacting_nodes[v]) >= 3
    /\ \E i \in DOMAIN df : InSeq(df[i][1], interacting_nodes[df[i][2]])

\* C10: every betweenness and every clustering coefficient lies in [0, 1].
InUnitInterval(x) == x[2] > 0 /\ FLeq(Zero, x) /\ FLeq(x, One)
C10_MetricRanges ==
    Ran("metrics")
        => /\ DOMAIN betweenness_dict = Nodes
           /\ DOMAIN clustering_dict = Nodes
           /\ \A v \in Nodes : InUnitInterval(betweenness_dict[v])
           /\ \A v \in Nodes : InUnitInterval(clustering_dict[v])

\* values strictly inside the interval and at its upper end
C10_Witness ==
    /\ pc = "done"
    /\ \E v \in Nodes : betweenness_dict[v] # Zero /\ betweenness_dict[v] # One
    /\ \E v \in Nodes : clustering_dict[v] = One
    /\ \E v \in Nodes : clustering_dict[v] # Zero /\ clustering_dict[v] # One
====
